---- MODULE Spec2Model ----
(***************************************************************************)
(* Verification model of llama/model.py: the Transformer forward pass with *)
(* its per-layer key/value cache, the causal mask, the output selection,   *)
(* the construction-time configuration arithmetic and the collectives the  *)
(* sharded layers issue.                                                   *)
(*                                                                         *)
(* Tensors of floating-point numbers are modelled as symbolic terms: a     *)
(* tuple whose first element is a tag naming the computation and whose     *)
(* other elements are its inputs.  Two terms are equal iff they are the    *)
(* same computation over the same inputs.  The one numerical fact that is  *)
(* kept is the one attention rests on: a score of -inf has softmax weight  *)
(* exactly 0, a finite score has a weight > 0.                             *)
(***************************************************************************)
EXTENDS Integers, Sequences, FiniteSets, TLC

(***************************************************************************)
(* ModelArgs of the instance under check (model.py, class ModelArgs).      *)
(***************************************************************************)
n_layers == 2
max_batch_size == 1
max_seq_len == 3
vocab_size == 2

\* Number of Transformer.forward calls one behaviour makes.
MaxCalls == 2
MaxSessionCalls == 3

\* The configurations a construction is tried with.
MaxDim == 8
MaxHeads == 4
MaxMultipleOf == 4
MaxWorldSize == 2

\* The size of the worker group that runs one call together.
model_parallel_size == 2

Layers == 1..n_layers
Slots == 1..max_batch_size
Positions == 0..(max_seq_len - 1)
TokenIds == 0..(vocab_size - 1)
\* output_index = None (no position is an index below 0)
None == -1

VARIABLES
    cache_k,        \* Attention.cache_k of every layer: [layer][slot][position]
    cache_v,        \* Attention.cache_v of every layer
    pc,             \* where Transformer.forward is: idle, layers, norm, done, failed
    call,           \* the arguments of the current Transformer.forward call
    layer,          \* the layer the loop of Transformer.forward runs next
    h,              \* the hidden state h of Transformer.forward: [row][window index]
    scores,         \* softmax weights of the last Attention.forward: [window index][position]
    result,         \* what the last Transformer.forward call returned or raised
    calls,          \* number of Transformer.forward calls made
    pre_k,          \* cache_k when the current call began
    pre_v,          \* cache_v when the current call began
    written,        \* per layer, the cache positions some call has written
    sess,           \* the calls of the current generation session, oldest first
    args,           \* the ModelArgs and world size the last construction was given
    built,          \* none, ok or error: how the last construction ended
    module,         \* the sizes the constructors computed
    ran,            \* none, ok or error: how a forward call on the built model ended
    job,            \* the arguments of the call the worker group is running
    wst,            \* per rank: idle, running, waiting (in a collective), returned, raised
    wpc,            \* per rank: the operation of Transformer.forward it runs next
    issued          \* per rank: the collectives it has taken part in, in order

fwdvars == <<cache_k, cache_v, pc, call, layer, h, scores, result, calls,
             pre_k, pre_v, written, sess>>
ctorvars == <<args, built, module, ran>>
spmdvars == <<job, wst, wpc, issued>>
vars == <<fwdvars, ctorvars, spmdvars>>

(***************************************************************************)
(* Sequences of positions.                                                 *)
(***************************************************************************)
Range(s) == {s[i] : i \in DOMAIN s}

\* Strictly increasing sequences of positions: what the interface allows as
\* input_indexes.
IncreasingWindows ==
    {s \in UNION {[1..n -> Positions] : n \in 1..max_seq_len} :
        \A i \in 1..(Len(s) - 1) : s[i] < s[i + 1]}

\* Windows of contiguous positions.
ContiguousWindows ==
    {s \in IncreasingWindows : \A i \in 1..(Len(s) - 1) : s[i + 1] = s[i] + 1}

(***************************************************************************)
(* Terms.                                                                  *)
(***************************************************************************)
Zero == <<"zero">>
Masked == <<"masked">>
NaN == <<"nan">>

\* cache_k = torch.zeros(...), cache_v = torch.zeros(...)
ZeroCache == [l \in Layers |-> [b \in Slots |-> [p \in Positions |-> Zero]]]

\* h = self.tok_embeddings(tokens)
tok_embeddings(tokens) ==
    [b \in DOMAIN tokens |-> [t \in DOMAIN tokens[b] |-> <<"emb", tokens[b][t]>>]]

\* precompute_freqs_cis: the rotation of absolute position p.
freqs_cis == [p \in 0..(2 * max_seq_len - 1) |-> p]

\* torch.full((1, 1, max_seq_len, max_seq_len), float("-inf"))
full_neg_inf == [r \in Positions |-> [c \in Positions |-> "-inf"]]

tril_bug(m, diagonal) ==
    [r \in Positions |-> [c \in Positions |->
        IF c - r <= diagonal - 1 THEN m[r][c] ELSE "0"]]

triu_off_by_one(m, diagonal) ==
    [r \in Positions |-> [c \in Positions |->
        IF c - r >= diagonal + 1 THEN m[r][c] ELSE "0"]]

\* torch.triu(m, diagonal): the entries on and above the given diagonal are
\* kept, the others are 0.
triu(m, diagonal) ==
    [r \in Positions |-> [c \in Positions |->
        IF c - r >= diagonal THEN m[r][c] ELSE "0"]]

\* self.mask, rows are query positions and columns key positions.
mask == triu(full_neg_inf, 1)

\* self.freqs_cis.index_select(0, input_indexes)
freqs_select(input_indexes) ==
    [t \in DOMAIN input_indexes |-> freqs_cis[input_indexes[t]]]

mask_select_first_rows(input_indexes) ==
    [t \in DOMAIN input_indexes |-> mask[t - 1]]

\* self.mask.index_select(2, input_indexes): the mask rows of the queries.
mask_select(input_indexes) ==
    [t \in DOMAIN input_indexes |-> mask[input_indexes[t]]]

(***************************************************************************)
(* Attention.forward                                                       *)
(***************************************************************************)
index_copy_prefix(cache, input_indexes, src) ==
    [b \in DOMAIN cache |-> [p \in DOMAIN cache[b] |->
        IF p + 1 \in DOMAIN input_indexes THEN src[b][p + 1] ELSE cache[b][p]]]

\* cache.index_copy(1, input_indexes, src): position input_indexes[t] of every
\* slot takes src[:, t]; every other entry is the old one.
index_copy(cache, input_indexes, src) ==
    [b \in DOMAIN cache |-> [p \in DOMAIN cache[b] |->
        IF p \in Range(input_indexes)
        THEN src[b][CHOOSE t \in DOMAIN input_indexes : input_indexes[t] = p]
        ELSE cache[b][p]]]

softmax_weights_unmasked(mask_slice) ==
    [t \in DOMAIN mask_slice |-> [j \in Positions |-> "pos"]]

\* scores = matmul(xq, keys^T) / sqrt(head_dim) + mask, then softmax over the
\* key axis: per query t and key position j, "0" when the weight is exactly
\* zero, "pos" when it is positive, "nan" when the whole row is -inf.
softmax_weights(mask_slice) ==
    [t \in DOMAIN mask_slice |-> [j \in Positions |->
        IF \A c \in Positions : mask_slice[t][c] = "-inf" THEN "nan"
        ELSE IF mask_slice[t][j] = "-inf" THEN "0" ELSE "pos"]]

\* output = matmul(scores, values): the weighted sum over the cache positions
\* whose weight is not zero, as a term over the keys and values it reads.
attend(q, w, keys, values) ==
    IF \E j \in Positions : w[j] = "nan" THEN NaN
    ELSE <<"att", q, [j \in Positions |->
                IF w[j] = "0" THEN Masked ELSE <<"kv", keys[j], values[j]>>]>>

\* Attention.forward of layer l on input x (already normed), with this layer's
\* cache (ck, cv).  Returns the new cache, the softmax weights and the output.
AttentionForward(l, x, freqs, mask_slice, input_indexes, ck, cv) ==
    LET xq == [b \in DOMAIN x |-> [t \in DOMAIN x[b] |-> <<"q", l, freqs[t], x[b][t]>>]]
        xk == [b \in DOMAIN x |-> [t \in DOMAIN x[b] |-> <<"k", l, freqs[t], x[b][t]>>]]
        xv == [b \in DOMAIN x |-> [t \in DOMAIN x[b] |-> <<"v", l, x[b][t]>>]]
        nk == index_copy(ck, input_indexes, xk)
        nv == index_copy(cv, input_indexes, xv)
        w  == softmax_weights(mask_slice)
    IN  [cache_k |-> nk, cache_v |-> nv, scores |-> w,
         out |-> [b \in DOMAIN x |-> [t \in DOMAIN x[b] |->
                    attend(xq[b][t], w[t], nk[b], nv[b])]]]

\* TransformerBlock.forward: h = x + attention(norm(x)); out = h + ffn(norm(h)).
TransformerBlockForward(l, x, freqs, mask_slice, input_indexes, ck, cv) ==
    LET a == AttentionForward(l, x, freqs, mask_slice, input_indexes, ck, cv)
    IN  [cache_k |-> a.cache_k, cache_v |-> a.cache_v, scores |-> a.scores,
         out |-> [b \in DOMAIN x |-> [t \in DOMAIN x[b] |->
                    <<"blk", x[b][t], a.out[b][t]>>]]]

(***************************************************************************)
(* Transformer.forward                                                     *)
(***************************************************************************)
BatchCheckAbsent(bsz) == TRUE

\* assert _bsz == self.params.max_batch_size
BatchCheck(bsz) == bsz = max_batch_size

\* h = self.norm(h); the selection of output_index; output = self.output(h).
\* index_select raises when the offset is not an index of the window.
Output(x, input_indexes, output_index) ==
    IF output_index = None
    THEN [kind |-> "all",
          val |-> [b \in DOMAIN x |-> [t \in DOMAIN x[b] |-> <<"logits", x[b][t]>>]]]
    ELSE LET sel == output_index - input_indexes[1]
         IN  IF sel \in 0..(Len(input_indexes) - 1)
             THEN [kind |-> "one",
                   val |-> [b \in DOMAIN x |-> <<"logits", x[b][sel + 1]>>]]
             ELSE [kind |-> "IndexError", val |-> <<>>]

NoResult == [kind |-> "none", val |-> <<>>]
NoCall == [bsz |-> 0, tokens |-> <<>>, input_indexes |-> <<>>, output_index |-> None]
NoScores == <<>>

\* The arguments a caller may pass: a token matrix of some batch size over
\* a window, the positions of its columns, and the position whose logits
\* are wanted (or None).
CallArgs(windows, sizes, outs) ==
    UNION {{[bsz |-> p[2], tokens |-> tk, input_indexes |-> p[1], output_index |-> o] :
                tk \in [1..p[2] -> [1..Len(p[1]) -> TokenIds]], o \in outs} :
           p \in windows \X sizes}

\* A batch made of one prompt repeated.
RepeatedRows(a) == \A b1, b2 \in 1..a.bsz : a.tokens[b1] = a.tokens[b2]

\* The session log: a call at position 0 opens a session, a call whose window
\* continues the previous one extends it, any other call ends it.
SessionAfter(s, a) ==
    LET w == a.input_indexes
        contiguous == \A i \in 1..(Len(w) - 1) : w[i + 1] = w[i] + 1
    IN  IF ~contiguous \/ a.bsz # max_batch_size THEN <<>>
        ELSE IF w[1] = 0 THEN <<a>>
        ELSE IF s # <<>> /\ w[1] = s[Len(s)].input_indexes[Len(s[Len(s)].input_indexes)] + 1
             THEN Append(s, a)
        ELSE <<>>

(***************************************************************************)
(* Construction: the arithmetic of the constructors on ModelArgs and the   *)
(* world size.  n_kv_heads may be None; ffn_dim_multiplier is None.        *)
(***************************************************************************)
NoArgs == [dim |-> 0, n_heads |-> 0, n_kv_heads |-> None, multiple_of |-> 0,
           world_size |-> 0]
NoModule == [n_kv_heads |-> 0, n_local_heads |-> 0, n_local_kv_heads |-> 0,
             n_rep |-> 0, head_dim |-> 0, hidden_dim |-> 0]

\* divide_and_check_no_remainder(numerator, denominator) raises unless the
\* division is exact.
divide_and_check_no_remainder_ok(numerator, denominator) ==
    numerator % denominator = 0

\* The sharded layers refuse a dimension the world size does not divide:
\* ColumnParallelLinear its output size, RowParallelLinear its input size,
\* ParallelEmbedding the embedding dimension.
ColumnParallelLinearInit(in_features, out_features, world_size) ==
    out_features % world_size = 0
RowParallelLinearInit(in_features, out_features, world_size) ==
    in_features % world_size = 0
ParallelEmbeddingInit(num_embeddings, embedding_dim, world_size) ==
    embedding_dim % world_size = 0

\* Attention.__init__: the sizes it computes, and whether it raised.
AttentionInit(a) ==
    LET n_kv == IF a.n_kv_heads = None THEN a.n_heads ELSE a.n_kv_heads
        w == a.world_size
    IN  IF ~divide_and_check_no_remainder_ok(a.n_heads, w)
           \/ ~divide_and_check_no_remainder_ok(n_kv, w)
        THEN [ok |-> FALSE, m |-> NoModule]
        ELSE LET nlh == a.n_heads \div w
                 nlkv == n_kv \div w
                 head_dim == a.dim \div a.n_heads
             IN  [ok |-> /\ ColumnParallelLinearInit(a.dim, a.n_heads * head_dim, w)
                         /\ ColumnParallelLinearInit(a.dim, n_kv * head_dim, w)
                         /\ RowParallelLinearInit(a.n_heads * head_dim, a.dim, w),
                  m |-> [n_kv_heads |-> n_kv, n_local_heads |-> nlh,
                         n_local_kv_heads |-> nlkv, n_rep |-> nlh \div nlkv,
                         head_dim |-> head_dim, hidden_dim |-> 0]]

FeedForwardHiddenDim_no_round_up(hidden_dim, multiple_of) ==
    multiple_of * (((2 * hidden_dim) \div 3) \div multiple_of)

\* FeedForward.__init__ with ffn_dim_multiplier None:
\* hidden_dim = int(2 * hidden_dim / 3), then rounded up to a multiple of
\* multiple_of.  int() of a positive quotient is its floor.
FeedForwardHiddenDim(hidden_dim, multiple_of) ==
    LET hd == (2 * hidden_dim) \div 3
    IN  multiple_of * ((hd + multiple_of - 1) \div multiple_of)

\* Transformer.__init__: the embedding, then the blocks (Attention, then
\* FeedForward with hidden_dim = 4 * dim), then the output projection.
TransformerInit(a) ==
    LET att == AttentionInit(a)
        hidden == FeedForwardHiddenDim(4 * a.dim, a.multiple_of)
        w == a.world_size
    IN  IF ~ParallelEmbeddingInit(vocab_size, a.dim, w) \/ ~att.ok
        THEN [ok |-> FALSE, m |-> att.m]
        ELSE [ok |-> /\ ColumnParallelLinearInit(a.dim, hidden, w)
                     /\ RowParallelLinearInit(hidden, a.dim, w)
                     /\ ColumnParallelLinearInit(a.dim, vocab_size, w),
              m |-> [att.m EXCEPT !.hidden_dim = hidden]]

\* Whether the tensor shapes of Attention.forward fit for a built model:
\* the reshape of apply_rotary_emb into pairs, the batch dimensions of
\* matmul(xq, keys^T) after repeat_kv, the view that merges the heads and
\* the input size of wo.
AttentionShapesOk(m) ==
    LET half == m.head_dim \div 2
        heads_k == IF m.n_rep = 1 THEN m.n_local_kv_heads
                   ELSE m.n_local_kv_heads * m.n_rep
        heads_out == IF m.n_local_heads = 1 THEN heads_k ELSE m.n_local_heads
    IN  /\ half > 0
        /\ (max_batch_size * m.n_local_heads * m.head_dim) % (2 * half) = 0
        /\ (max_batch_size * m.n_local_kv_heads * m.head_dim) % (2 * half) = 0
        /\ (m.n_local_heads = heads_k \/ m.n_local_heads = 1 \/ heads_k = 1)
        /\ heads_out * m.head_dim > 0
        /\ heads_out * m.head_dim = m.n_local_heads * m.head_dim

(***************************************************************************)
(* The worker group.  Every rank runs Transformer.forward on the same      *)
(* arguments; the operations below are the calls of the sharded layers in  *)
(* the order the code makes them, each with the collective it issues.      *)
(***************************************************************************)
Ranks == 0..(model_parallel_size - 1)

Op(l, name, coll, fails) == [site |-> <<l, name>>, coll |-> coll, fails |-> fails]

\* The collective a sharded layer's forward issues.
ColumnParallelLinearForward(gather_output) ==
    IF gather_output THEN "all_gather" ELSE "none"
RowParallelLinearForward == "all_reduce"
ParallelEmbeddingForward == "all_gather"

AttentionOps_gather_wq(l, a) ==
    <<Op(l, "wq", ColumnParallelLinearForward(TRUE), FALSE),
      Op(l, "wk", ColumnParallelLinearForward(FALSE), FALSE),
      Op(l, "wv", ColumnParallelLinearForward(FALSE), FALSE),
      Op(l, "index_copy", "none", a.bsz # max_batch_size),
      Op(l, "wo", RowParallelLinearForward, FALSE)>>

\* Attention.forward: wq, wk, wv (gather_output=False), the cache update,
\* wo (row parallel).
AttentionOps(l, a) ==
    <<Op(l, "wq", ColumnParallelLinearForward(FALSE), FALSE),
      Op(l, "wk", ColumnParallelLinearForward(FALSE), FALSE),
      Op(l, "wv", ColumnParallelLinearForward(FALSE), FALSE),
      Op(l, "index_copy", "none", a.bsz # max_batch_size),
      Op(l, "wo", RowParallelLinearForward, FALSE)>>

\* FeedForward.forward: self.w2(F.silu(self.w1(x)) * self.w3(x))
FeedForwardOps(l) ==
    <<Op(l, "w1", ColumnParallelLinearForward(FALSE), FALSE),
      Op(l, "w3", ColumnParallelLinearForward(FALSE), FALSE),
      Op(l, "w2", RowParallelLinearForward, FALSE)>>

\* TransformerBlock.forward for the layers l..n_layers.
RECURSIVE LayerOps(_, _)
LayerOps(l, a) ==
    IF l > n_layers THEN <<>>
    ELSE AttentionOps(l, a) \o FeedForwardOps(l) \o LayerOps(l + 1, a)

\* Transformer.forward on one rank.  Neither the rank nor the token values
\* decide an operation.
TransformerOps(rank, a) ==
    <<Op(0, "assert", "none", ~BatchCheck(a.bsz)),
      Op(0, "tok_embeddings", ParallelEmbeddingForward, FALSE)>>
    \o LayerOps(1, a)
    \o <<Op(0, "index_select", "none",
            Output(tok_embeddings(a.tokens), a.input_indexes,
                   a.output_index).kind = "IndexError"),
         Op(0, "output", ColumnParallelLinearForward(TRUE), FALSE)>>

InitForward ==
    /\ cache_k = ZeroCache
    /\ cache_v = ZeroCache
    /\ pc = "idle"
    /\ call = NoCall
    /\ layer = 0
    /\ h = <<>>
    /\ scores = NoScores
    /\ result = NoResult
    /\ calls = 0
    /\ pre_k = ZeroCache
    /\ pre_v = ZeroCache
    /\ written = [l \in Layers |-> {}]
    /\ sess = <<>>

InitCtor ==
    /\ args = NoArgs
    /\ built = "none"
    /\ module = NoModule
    /\ ran = "none"

InitWorkers ==
    /\ job = NoCall
    /\ wst = [r \in Ranks |-> "idle"]
    /\ wpc = [r \in Ranks |-> 0]
    /\ issued = [r \in Ranks |-> <<>>]

Init == InitForward /\ InitCtor /\ InitWorkers

\* Transformer.forward up to the layer loop: the batch-size assertion, the
\* embedding, the selection of the rotary and mask slices.
Begin(a) ==
    /\ pc \in {"idle", "done", "failed"}
    /\ call' = a
    /\ calls' = calls + 1
    /\ pre_k' = cache_k
    /\ pre_v' = cache_v
    /\ sess' = SessionAfter(sess, a)
    /\ scores' = NoScores
    /\ IF BatchCheck(a.bsz)
       THEN /\ pc' = "layers"
            /\ layer' = 1
            /\ h' = tok_embeddings(a.tokens)
            /\ result' = NoResult
       ELSE /\ pc' = "failed"
            /\ layer' = 0
            /\ h' = <<>>
            /\ result' = [kind |-> "AssertionError", val |-> <<>>]
    /\ UNCHANGED <<cache_k, cache_v, written, ctorvars, spmdvars>>

\* One iteration of "for layer in self.layers: h = layer(h, ...)".
\* index_copy raises when the source's batch size is not the cache's.
BlockStep ==
    /\ pc = "layers"
    /\ IF call.bsz # max_batch_size
       THEN /\ pc' = "failed"
            /\ result' = [kind |-> "RuntimeError", val |-> <<>>]
            /\ UNCHANGED <<cache_k, cache_v, layer, h, scores, written>>
       ELSE LET r == TransformerBlockForward(layer, h,
                        freqs_select(call.input_indexes),
                        mask_select(call.input_indexes),
                        call.input_indexes, cache_k[layer], cache_v[layer])
            IN  /\ cache_k' = [cache_k EXCEPT ![layer] = r.cache_k]
                /\ cache_v' = [cache_v EXCEPT ![layer] = r.cache_v]
                /\ scores' = r.scores
                /\ h' = r.out
                /\ written' = [written EXCEPT ![layer] = @ \cup Range(call.input_indexes)]
                /\ layer' = layer + 1
                /\ pc' = IF layer = n_layers THEN "norm" ELSE "layers"
                /\ UNCHANGED result
    /\ UNCHANGED <<call, calls, pre_k, pre_v, sess, ctorvars, spmdvars>>

\* The end of Transformer.forward: final norm, output selection, projection.
Finish ==
    /\ pc = "norm"
    /\ LET o == Output(h, call.input_indexes, call.output_index)
       IN  /\ result' = o
           /\ pc' = IF o.kind = "IndexError" THEN "failed" ELSE "done"
    /\ UNCHANGED <<cache_k, cache_v, call, layer, h, scores, calls,
                   pre_k, pre_v, written, sess, ctorvars, spmdvars>>

\* Any call the interface's types allow: any increasing window, any output
\* position or none, and the configured batch size or a batch one prompt
\* larger (the same prompt repeated).
BeginAny ==
    /\ calls < MaxCalls
    /\ \E a \in CallArgs(IncreasingWindows, {max_batch_size, max_batch_size + 1},
                         Positions \cup {None}) :
        /\ RepeatedRows(a)
        /\ Begin(a)

Next == BeginAny \/ BlockStep \/ Finish

Spec == Init /\ [][Next]_vars

(***************************************************************************)
(* A generation session as the generation loop drives it: every call has   *)
(* the configured batch size and a contiguous window, and asks for all the *)
(* window's logits or for those of its last position.                      *)
(***************************************************************************)
BeginSession ==
    /\ calls < MaxSessionCalls
    /\ \E a \in CallArgs(ContiguousWindows, {max_batch_size}, Positions \cup {None}) :
        /\ a.output_index \in {None, a.input_indexes[Len(a.input_indexes)]}
        /\ Begin(a)

NextSession == BeginSession \/ BlockStep \/ Finish

SpecSession == Init /\ [][NextSession]_vars

(***************************************************************************)
(* Construction of a Transformer with any small configuration, and a       *)
(* forward call on the model that was built.                               *)
(***************************************************************************)
Construct ==
    /\ built = "none"
    /\ \E d \in 1..MaxDim, nh \in 1..MaxHeads, nkv \in (1..MaxHeads) \cup {None},
          mo \in 1..MaxMultipleOf, w \in 1..MaxWorldSize :
        LET a == [dim |-> d, n_heads |-> nh, n_kv_heads |-> nkv,
                  multiple_of |-> mo, world_size |-> w]
            t == TransformerInit(a)
        IN  /\ args' = a
            /\ built' = IF t.ok THEN "ok" ELSE "error"
            /\ module' = t.m
            /\ UNCHANGED <<ran, fwdvars, spmdvars>>

TryForward ==
    /\ built = "ok"
    /\ ran = "none"
    /\ ran' = IF AttentionShapesOk(module) THEN "ok" ELSE "error"
    /\ UNCHANGED <<args, built, module, fwdvars, spmdvars>>

NextCtor == Construct \/ TryForward

SpecCtor == Init /\ [][NextCtor]_vars

(***************************************************************************)
(* One call run by the worker group.  A rank runs its operations in order; *)
(* at an operation that issues a collective it waits, and the collective   *)
(* completes when every rank waits at that same operation.                 *)
(***************************************************************************)
Finished(r) == wst[r] \in {"returned", "raised"}

StartJob ==
    /\ \A r \in Ranks : wst[r] = "idle" \/ Finished(r)
    /\ \E a \in CallArgs(IncreasingWindows, {max_batch_size, max_batch_size + 1},
                         Positions \cup {None}) :
        /\ RepeatedRows(a)
        /\ job' = a
    /\ wst' = [r \in Ranks |-> "running"]
    /\ wpc' = [r \in Ranks |-> 1]
    /\ issued' = [r \in Ranks |-> <<>>]
    /\ UNCHANGED <<fwdvars, ctorvars>>

Advance(r, ops) ==
    IF wpc[r] = Len(ops) THEN "returned" ELSE "running"

LocalStep(r) ==
    /\ wst[r] = "running"
    /\ LET ops == TransformerOps(r, job)
           op == ops[wpc[r]]
       IN  /\ op.coll = "none"
           /\ IF op.fails
              THEN /\ wst' = [wst EXCEPT ![r] = "raised"]
                   /\ UNCHANGED wpc
              ELSE /\ wst' = [wst EXCEPT ![r] = Advance(r, ops)]
                   /\ wpc' = [wpc EXCEPT ![r] = @ + 1]
    /\ UNCHANGED <<job, issued, fwdvars, ctorvars>>

Arrive(r) ==
    /\ wst[r] = "running"
    /\ TransformerOps(r, job)[wpc[r]].coll # "none"
    /\ wst' = [wst EXCEPT ![r] = "waiting"]
    /\ UNCHANGED <<job, wpc, issued, fwdvars, ctorvars>>

WaitingAt(r) == TransformerOps(r, job)[wpc[r]]

Collective ==
    /\ \A r \in Ranks : wst[r] = "waiting"
    /\ \A r1, r2 \in Ranks :
        /\ WaitingAt(r1).site = WaitingAt(r2).site
        /\ WaitingAt(r1).coll = WaitingAt(r2).coll
    /\ issued' = [r \in Ranks |->
                    Append(issued[r], [site |-> WaitingAt(r).site,
                                       coll |-> WaitingAt(r).coll])]
    /\ wst' = [r \in Ranks |-> Advance(r, TransformerOps(r, job))]
    /\ wpc' = [r \in Ranks |-> wpc[r] + 1]
    /\ UNCHANGED <<job, fwdvars, ctorvars>>

WorkerStep(r) == LocalStep(r) \/ Arrive(r)

NextWorkers == StartJob \/ Collective \/ \E r \in Ranks : WorkerStep(r)

\* Every rank is a process of its own that keeps running its straight-line
\* code, and a collective every rank has entered completes.
SpecWorkers ==
    /\ Init
    /\ [][NextWorkers]_vars
    /\ \A r \in Ranks : WF_vars(WorkerStep(r))
    /\ WF_vars(Collective)

(***************************************************************************)
(* Transformer.forward as a function of the caches and the arguments: the  *)
(* composition of the steps above, for a call that passes the batch check. *)
(***************************************************************************)
RECURSIVE RunLayers(_, _, _, _, _)
RunLayers(l, x, ck, cv, input_indexes) ==
    IF l > n_layers THEN [h |-> x, cache_k |-> ck, cache_v |-> cv]
    ELSE LET r == TransformerBlockForward(l, x, freqs_select(input_indexes),
                        mask_select(input_indexes), input_indexes, ck[l], cv[l])
         IN  RunLayers(l + 1, r.out, [ck EXCEPT ![l] = r.cache_k],
                       [cv EXCEPT ![l] = r.cache_v], input_indexes)

TransformerForward(ck, cv, a) ==
    LET r == RunLayers(1, tok_embeddings(a.tokens), ck, cv, a.input_indexes)
    IN  [cache_k |-> r.cache_k, cache_v |-> r.cache_v,
         result |-> Output(r.h, a.input_indexes, a.output_index)]

\* The call for the window's t-th position alone, asking for all its logits.
SingleCall(a, t) ==
    [bsz |-> a.bsz,
     tokens |-> [b \in DOMAIN a.tokens |-> <<a.tokens[b][t]>>],
     input_indexes |-> <<a.input_indexes[t]>>,
     output_index |-> None]

\* The window of call a processed position by position, from caches (ck, cv):
\* the caches after the first n positions and the logits each call returned.
RECURSIVE Stepwise(_, _, _, _)
Stepwise(ck, cv, a, n) ==
    IF n = 0 THEN [cache_k |-> ck, cache_v |-> cv, logits |-> <<>>]
    ELSE LET before == Stepwise(ck, cv, a, n - 1)
             r == TransformerForward(before.cache_k, before.cache_v, SingleCall(a, n))
         IN  [cache_k |-> r.cache_k, cache_v |-> r.cache_v,
              logits |-> Append(before.logits,
                                [b \in DOMAIN a.tokens |-> r.result.val[b][1]])]

\* The calls of s made in order on caches (ck, cv).
RECURSIVE Replay(_, _, _, _)
Replay(ck, cv, s, n) ==
    IF n = 0 THEN [cache_k |-> ck, cache_v |-> cv, result |-> NoResult]
    ELSE LET before == Replay(ck, cv, s, n - 1)
         IN  TransformerForward(before.cache_k, before.cache_v, s[n])

LastPosition(s) == LET w == s[Len(s)].input_indexes IN w[Len(w)]

(***************************************************************************)
(* C1  Incremental-decode equivalence.  A completed call over a window of  *)
(* contiguous positions returns, for every position it reports, the logits *)
(* that position gets when the window is processed by one call per         *)
(* position, in order, from the caches the call started from; and it       *)
(* leaves the caches those calls leave.                                    *)
(***************************************************************************)
C1_IncrementalDecodeEquivalence ==
    pc = "done" =>
        LET w == call.input_indexes
            s == Stepwise(pre_k, pre_v, call, Len(w))
        IN  /\ cache_k = s.cache_k
            /\ cache_v = s.cache_v
            /\ result.kind = "all" =>
                \A b \in 1..call.bsz : \A t \in DOMAIN w :
                    result.val[b][t] = s.logits[t][b]
            /\ result.kind = "one" =>
                \A b \in 1..call.bsz : \E t \in DOMAIN w :
                    /\ w[t] = call.output_index
                    /\ result.val[b] = s.logits[t][b]

\* A call over two or more positions has returned all its logits, having
\* started from caches that held an earlier call's entry at its last position.
C1_Witness ==
    /\ pc = "done"
    /\ result.kind = "all"
    /\ Len(call.input_indexes) >= 2
    /\ \A l \in Layers : \A b \in Slots :
        pre_k[l][b][call.input_indexes[Len(call.input_indexes)]] # Zero

(***************************************************************************)
(* C2  Causal masking in absolute positions.  After every Attention.forward*)
(* the softmax weight of each query at position i on every cache position  *)
(* j > i is exactly 0, whatever that position holds, some position j <= i  *)
(* has positive weight, and no weight is NaN.                              *)
(***************************************************************************)
C2_CausalMask ==
    \A t \in DOMAIN scores :
        LET i == call.input_indexes[t]
        IN  /\ \A j \in Positions : j > i => scores[t][j] = "0"
            /\ \E j \in Positions : j <= i /\ scores[t][j] = "pos"
            /\ \A j \in Positions : scores[t][j] # "nan"

\* An attention call has run for a query below a position that an earlier
\* call wrote: that entry is in the cache and has weight 0.
C2_Witness ==
    /\ scores # NoScores
    /\ \E t \in DOMAIN scores : \E j \in Positions :
        /\ j > call.input_indexes[t]
        /\ j \notin Range(call.input_indexes)
        /\ cache_k[1][1][j] # Zero
        /\ scores[t][j] = "0"

(***************************************************************************)
(* C3  KV-cache write frame.  A step changes an entry of cache_k or        *)
(* cache_v only when it is the Attention.forward of that entry's layer and *)
(* the entry's position is in input_indexes; those entries take the keys   *)
(* and values of this call; the shape of every cache never changes.        *)
(***************************************************************************)
C3_WriteFrame ==
    [][ /\ \A l \in Layers : \A b \in Slots : \A p \in Positions :
            (cache_k'[l][b][p] # cache_k[l][b][p] \/ cache_v'[l][b][p] # cache_v[l][b][p])
                => /\ pc = "layers"
                   /\ l = layer
                   /\ p \in Range(call.input_indexes)
        /\ (pc = "layers" /\ pc' # "failed") =>
            \A b \in Slots : \A t \in DOMAIN call.input_indexes :
                LET p == call.input_indexes[t]
                IN  /\ cache_k'[layer][b][p] = <<"k", layer, p, h[b][t]>>
                    /\ cache_v'[layer][b][p] = <<"v", layer, h[b][t]>>
        /\ DOMAIN cache_k' = Layers /\ DOMAIN cache_v' = Layers
        /\ \A l \in Layers :
            /\ DOMAIN cache_k'[l] = Slots /\ DOMAIN cache_v'[l] = Slots
            /\ \A b \in Slots : /\ DOMAIN cache_k'[l][b] = Positions
                                /\ DOMAIN cache_v'[l][b] = Positions
      ]_vars

\* The first layer's attention has overwritten an earlier call's entry at a
\* window position, beside an entry of that call outside the window which it
\* kept, and the second layer's cache is still as the call found it.
C3_Witness ==
    /\ pc = "layers"
    /\ layer = 2
    /\ \E p \in Range(call.input_indexes) :
        pre_k[1][1][p] # Zero /\ cache_k[1][1][p] # pre_k[1][1][p]
    /\ \E p \in Positions \ Range(call.input_indexes) :
        pre_k[1][1][p] # Zero /\ cache_k[1][1][p] = pre_k[1][1][p]
    /\ cache_k[2] = pre_k[2]
    /\ cache_k[2] # ZeroCache[2]

(***************************************************************************)
(* C4  Batch-size validation.  A call whose token matrix has another batch *)
(* size than max_batch_size fails with the assertion before anything else  *)
(* of the call has run: no embedding, no layer, every cache as it was.     *)
(***************************************************************************)
C4_BatchSizeChecked ==
    (pc # "idle" /\ call.bsz # max_batch_size) =>
        /\ pc = "failed"
        /\ result.kind = "AssertionError"
        /\ layer = 0
        /\ h = <<>>
        /\ cache_k = pre_k
        /\ cache_v = pre_v

\* A call with a wrong batch size has failed on a model whose caches hold an
\* earlier call's entries.
C4_Witness ==
    /\ pc = "failed"
    /\ call.bsz # max_batch_size
    /\ cache_k # ZeroCache
    /\ cache_k = pre_k

(***************************************************************************)
(* C5  output_index validation, as claimed: a call that completes with an  *)
(* output_index had an output_index among its input_indexes, and returned  *)
(* the logits of that position.                                            *)
(***************************************************************************)
C5_OutputIndexValidated ==
    (pc = "done" /\ call.output_index # None) =>
        \E t \in DOMAIN call.input_indexes :
            /\ call.input_indexes[t] = call.output_index
            /\ \A b \in 1..call.bsz : result.val[b] = <<"logits", h[b][t]>>

(***************************************************************************)
(* C8  Attention reads exactly the positions written so far, as claimed:   *)
(* every cache position with positive weight in the last Attention.forward *)
(* was written, by this call or an earlier one, in that layer.             *)
(***************************************************************************)
C8_OnlyWrittenAttended ==
    scores # NoScores =>
        \A t \in DOMAIN scores : \A j \in Positions :
            scores[t][j] = "pos" => j \in written[layer - 1]

(***************************************************************************)
(* C8 as amended.  The query at position p gives positive weight to        *)
(* exactly the cache positions j <= p, written or not; when the calls so   *)
(* far have written every position 0..p of the layer, these are written    *)
(* positions, none holds its zero fill, and every written position <= p is *)
(* attended.                                                               *)
(***************************************************************************)
C8_AttendsPrefix ==
    scores # NoScores =>
        \A t \in DOMAIN scores :
            LET p == call.input_indexes[t]
                l == layer - 1
            IN  /\ \A j \in Positions : scores[t][j] = "pos" <=> j <= p
                /\ \A j \in Positions : scores[t][j] \in {"pos", "0"}
                /\ (0..p) \subseteq written[l] =>
                    \A j \in Positions :
                        /\ scores[t][j] = "pos" =>
                            /\ j \in written[l]
                            /\ \A b \in Slots : /\ cache_k[l][b][j] # Zero
                                                /\ cache_v[l][b][j] # Zero
                        /\ (j \in written[l] /\ j <= p) => scores[t][j] = "pos"
                /\ \A b \in Slots :
                    h[b][t][3][3] =
                        [j \in Positions |->
                            IF j <= p
                            THEN <<"kv", cache_k[l][b][j], cache_v[l][b][j]>>
                            ELSE Masked]

\* Decode after prefill: the second call of a session that began at position
\* 0 has run its last layer's attention for the last position of the cache.
C8_Witness ==
    /\ pc = "norm"
    /\ Len(sess) = 2
    /\ call.input_indexes = <<max_seq_len - 1>>
    /\ written[n_layers] = Positions
    /\ \A j \in Positions : scores[1][j] = "pos"

(***************************************************************************)
(* C10  Session isolation.  Whatever earlier calls left in the caches, a   *)
(* completed call of a session (contiguous windows from position 0 on)     *)
(* returns what the same calls return on a model whose caches are all      *)
(* zero, and the caches agree on every position the session has reached.   *)
(***************************************************************************)
C10_SessionIsolation ==
    (pc = "done" /\ sess # <<>>) =>
        LET fresh == Replay(ZeroCache, ZeroCache, sess, Len(sess))
        IN  /\ result = fresh.result
            /\ \A l \in Layers : \A b \in Slots : \A p \in 0..LastPosition(sess) :
                /\ cache_k[l][b][p] = fresh.cache_k[l][b][p]
                /\ cache_v[l][b][p] = fresh.cache_v[l][b][p]

\* The second call of a session has completed on caches that still hold, past
\* the session's last position, an entry of a call made before the session.
C10_Witness ==
    /\ pc = "done"
    /\ Len(sess) = 2
    /\ calls = 3
    /\ \E p \in Positions :
        /\ p > LastPosition(sess)
        /\ \A l \in Layers : cache_k[l][1][p] # Zero /\ cache_v[l][1][p] # Zero

(***************************************************************************)
(* C6  Configuration divisibility, as claimed: a model is built, and a     *)
(* forward call runs, only for a configuration in which the world size     *)
(* divides n_heads and n_kv_heads, n_kv_heads divides n_heads and n_heads  *)
(* divides dim.                                                            *)
(***************************************************************************)
ConfigDivisible(a) ==
    LET n_kv == IF a.n_kv_heads = None THEN a.n_heads ELSE a.n_kv_heads
    IN  /\ a.n_heads % a.world_size = 0
        /\ n_kv % a.world_size = 0
        /\ a.n_heads % n_kv = 0
        /\ a.dim % a.n_heads = 0

C6_DivisibilityEnforced ==
    /\ built = "ok" => ConfigDivisible(args)
    /\ ran = "ok" => ConfigDivisible(args)

(***************************************************************************)
(* C7  SPMD collective ordering.  Every rank issues a prefix of the same   *)
(* sequence of collectives: the embedding's all-gather, per layer the      *)
(* all-reduce of wo then the all-reduce of w2, the output's all-gather;    *)
(* a rank that returned issued all of it; ranks that wait in a collective  *)
(* wait in the same one, and none waits for a rank that has left the call; *)
(* a valid call raises on no rank; and every call that started ends on     *)
(* every rank.                                                             *)
(***************************************************************************)
RECURSIVE ExpectedLayerCollectives(_)
ExpectedLayerCollectives(l) ==
    IF l > n_layers THEN <<>>
    ELSE <<[site |-> <<l, "wo">>, coll |-> "all_reduce"],
           [site |-> <<l, "w2">>, coll |-> "all_reduce"]>>
         \o ExpectedLayerCollectives(l + 1)

ExpectedCollectives ==
    <<[site |-> <<0, "tok_embeddings">>, coll |-> "all_gather"]>>
    \o ExpectedLayerCollectives(1)
    \o <<[site |-> <<0, "output">>, coll |-> "all_gather"]>>

IsPrefix(s, t) == Len(s) <= Len(t) /\ \A i \in 1..Len(s) : s[i] = t[i]

ValidJob ==
    /\ job.bsz = max_batch_size
    /\ job.output_index # None =>
        (job.output_index - job.input_indexes[1]) \in 0..(Len(job.input_indexes) - 1)

C7_Safe ==
    \A r \in Ranks :
        /\ IsPrefix(issued[r], ExpectedCollectives)
        /\ wst[r] = "returned" => issued[r] = ExpectedCollectives
        /\ wst[r] = "raised" => ~ValidJob
        /\ \A r2 \in Ranks :
            /\ (wst[r] = "waiting" /\ wst[r2] = "waiting") =>
                /\ wpc[r] = wpc[r2]
                /\ WaitingAt(r) = WaitingAt(r2)
            /\ ~(wst[r] = "waiting" /\ Finished(r2))
            /\ IsPrefix(issued[r], issued[r2]) \/ IsPrefix(issued[r2], issued[r])

C7_CollectiveOrder ==
    /\ []C7_Safe
    /\ (\E r \in Ranks : wst[r] = "running") ~> (\A r \in Ranks : Finished(r))

\* One rank waits in the last layer's all-reduce of w2 while another rank is
\* still running operations before it.
C7_Witness ==
    \E r1, r2 \in Ranks :
        /\ wst[r1] = "waiting"
        /\ WaitingAt(r1).site = <<n_layers, "w2">>
        /\ wst[r2] = "running"
        /\ wpc[r2] < wpc[r1]
        /\ \E b \in 1..job.bsz : \E t \in DOMAIN job.tokens[b] : job.tokens[b][t] # 0

(***************************************************************************)
(* C9  Feed-forward hidden size, as claimed: hidden_dim is the smallest    *)
(* multiple of multiple_of that is >= 4*dim*2/3 rounded to the nearest     *)
(* integer.                                                                *)
(***************************************************************************)
RoundNearest(num, den) == (2 * num + den) \div (2 * den)

SmallestMultipleAtLeast(v, m, x) == v % m = 0 /\ v >= x /\ v - m < x

C9_HiddenDimRounded ==
    module.hidden_dim # 0 =>
        SmallestMultipleAtLeast(module.hidden_dim, args.multiple_of,
                                RoundNearest(4 * args.dim * 2, 3))

(***************************************************************************)
(* C9 as amended.  hidden_dim is the smallest multiple of multiple_of that *)
(* is >= 4*dim*2/3 truncated to an integer (its floor); it is a positive   *)
(* multiple of multiple_of.                                                *)
(***************************************************************************)
C9_HiddenDimTruncated ==
    module.hidden_dim # 0 =>
        /\ SmallestMultipleAtLeast(module.hidden_dim, args.multiple_of,
                                   (4 * args.dim * 2) \div 3)
        /\ module.hidden_dim > 0
        /\ module.hidden_dim % args.multiple_of = 0

\* A model was built whose 4*dim*2/3 has the fraction 2/3, where truncating
\* and rounding differ, and is no multiple of multiple_of, so that the
\* rounding up to a multiple acted.
C9_Witness ==
    /\ built = "ok"
    /\ (8 * args.dim) % 3 = 2
    /\ ((8 * args.dim) \div 3) % args.multiple_of # 0
    /\ module.hidden_dim > (8 * args.dim) \div 3
====
